---- MODULE Spec2Model ----
(***************************************************************************)
(* Model of the outbound-call rate governor of faq-app                     *)
(* (app/core/rate_limiter.py, OpenAIRateLimiter) and of the call sites     *)
(* that issue metered OpenAI calls (app/services/embeddings_service.py,    *)
(* app/services/openai_service.py).                                        *)
(*                                                                         *)
(* Time is counted in whole seconds.  A coroutine runs atomically between  *)
(* two awaits, so every action below is one such uninterrupted stretch.    *)
(***************************************************************************)
EXTENDS Integers, Sequences, FiniteSets, TLC

\* ---------------------------------------------------------------- bounds
NumCallers == 2
MaxCalls == 3
MaxTicks == 1
MaxUpdates == 1
MaxTextLen == 8

\* ------------------------------------------------------ program constants
MinuteWindow == 60
DayWindow == 24 * 60 * 60
SafetyMargin == 1
CharsPerToken == 4

\* overall_health thresholds 0.7 and 0.9, in tenths
GoodBelowTenths == 7
CautionBelowTenths == 9

\* ----------------------------------------------------------------- inputs
Callers == 1..NumCallers
NoCaller == 0
TextLens == {n \in 0..MaxTextLen : n % CharsPerToken = 0}
TickSteps == {30, 60}
RpmChoices == {0, 1, 2}
RpdChoices == {-1, 2, 3}
TpmChoices == {0, 2, 4}
TpdChoices == {-1, 4}
PositiveRpm == {n \in RpmChoices : n > 0}
PositiveRpd == {n \in RpdChoices : n > 0}
PositiveTpm == {n \in TpmChoices : n > 0}
PositiveTpd == {n \in TpdChoices : n > 0}
\* ceilings of an instance on which the health bands can all be met: RPM and
\* TPM a few calls wide, RPD and TPD at the defaults of the module's instance
HealthRpm == {4, 10}
HealthTpm == {3, 4, 10}
\* a TPM ceiling smaller than the cost of a text of eight characters
TightTpm == {1}
DefaultRpd == 1000
DefaultTpd == 1000000
\* an optional argument: <<>> is None, <<v>> is the value v
Optional(S) == {<<>>} \cup {<<v>> : v \in S}

VARIABLES
  rpm_limit, rpd_limit, tpm_limit, tpd_limit,
  requests_minute, requests_day, tokens_minute, tokens_day,
  lock, waiters,
  clock, ticks,
  pc, site, estimated_tokens, now, wait_time,
  calls, acquires_completed, metered_calls, updates

limits == <<rpm_limit, rpd_limit, tpm_limit, tpd_limit>>
ledgers == <<requests_minute, requests_day, tokens_minute, tokens_day>>
locals == <<estimated_tokens, now, wait_time>>
counters == <<calls, acquires_completed, metered_calls>>
vars == <<limits, ledgers, lock, waiters, clock, ticks, pc, site, locals,
          counters, updates>>

\* ------------------------------------------------------- helper operators
Max(a, b) == IF a >= b THEN a ELSE b

Range(s) == {s[i] : i \in 1..Len(s)}

\* Python min() over a non-empty list of numbers
MinOf(S) == CHOOSE x \in S : \A y \in S : x <= y

\* Python max() over a non-empty list of numbers
MaxOf(S) == CHOOSE x \in S : \A y \in S : x >= y

Stamps(tok) == {tok[i][1] : i \in 1..Len(tok)}

RECURSIVE SumTokens(_)
SumTokens(tok) ==
  IF tok = <<>> THEN 0 ELSE Head(tok)[2] + SumTokens(Tail(tok))

\* an estimate without the floor of 1
estimate_tokens_unfloored(len) == len \div CharsPerToken

\* EmbeddingService.estimate_tokens, on the length of the text
estimate_tokens(len) == Max(1, len \div CharsPerToken)

\* the four ledgers as one value
Ledgers == [rm |-> requests_minute, rd |-> requests_day,
            tm |-> tokens_minute, td |-> tokens_day]

Limits == [rpm |-> rpm_limit, rpd |-> rpd_limit,
           tpm |-> tpm_limit, tpd |-> tpd_limit]

\* a pruning that keeps the entry whose age is exactly the window length
cleanup_old_entries_inclusive(L, t) ==
  LET minute_ago == t - MinuteWindow
      day_ago == t - DayWindow
  IN [rm |-> SelectSeq(L.rm, LAMBDA x : x >= minute_ago),
      tm |-> SelectSeq(L.tm, LAMBDA e : e[1] >= minute_ago),
      rd |-> SelectSeq(L.rd, LAMBDA x : x >= day_ago),
      td |-> SelectSeq(L.td, LAMBDA e : e[1] >= day_ago)]

\* a pruning that applies the minute boundary to the day ledgers as well
cleanup_old_entries_one_window(L, t) ==
  LET minute_ago == t - MinuteWindow
  IN [rm |-> SelectSeq(L.rm, LAMBDA x : x > minute_ago),
      tm |-> SelectSeq(L.tm, LAMBDA e : e[1] > minute_ago),
      rd |-> SelectSeq(L.rd, LAMBDA x : x > minute_ago),
      td |-> SelectSeq(L.td, LAMBDA e : e[1] > minute_ago)]

\* a pruning that forgets the token ledgers
cleanup_old_entries_requests_only(L, t) ==
  LET minute_ago == t - MinuteWindow
      day_ago == t - DayWindow
  IN [rm |-> SelectSeq(L.rm, LAMBDA x : x > minute_ago),
      tm |-> L.tm,
      rd |-> SelectSeq(L.rd, LAMBDA x : x > day_ago),
      td |-> L.td]

\* OpenAIRateLimiter._cleanup_old_entries
cleanup_old_entries(L, t) ==
  LET minute_ago == t - MinuteWindow
      day_ago == t - DayWindow
  IN [rm |-> SelectSeq(L.rm, LAMBDA x : x > minute_ago),
      tm |-> SelectSeq(L.tm, LAMBDA e : e[1] > minute_ago),
      rd |-> SelectSeq(L.rd, LAMBDA x : x > day_ago),
      td |-> SelectSeq(L.td, LAMBDA e : e[1] > day_ago)]

\* the per-metric waits appended to wait_times in _calculate_wait_time
\* a request check that is off by one
rpm_waits_strict(L, lim, t) ==
  IF Len(L.rm) > lim.rpm
  THEN {MinuteWindow - (t - MinOf(Range(L.rm))) + SafetyMargin} ELSE {}

\* a request wait without the safety margin
rpm_waits_no_margin(L, lim, t) ==
  IF Len(L.rm) >= lim.rpm
  THEN {MinuteWindow - (t - MinOf(Range(L.rm)))} ELSE {}

\* a request wait measured from the newest entry
rpm_waits_newest(L, lim, t) ==
  IF Len(L.rm) >= lim.rpm
  THEN {MinuteWindow - (t - MaxOf(Range(L.rm))) + SafetyMargin} ELSE {}

rpm_waits(L, lim, t) ==
  IF Len(L.rm) >= lim.rpm
  THEN {MinuteWindow - (t - MinOf(Range(L.rm))) + SafetyMargin} ELSE {}

rpd_waits(L, lim, t) ==
  IF Len(L.rd) >= lim.rpd
  THEN {DayWindow - (t - MinOf(Range(L.rd))) + SafetyMargin} ELSE {}

\* a token check that already waits when the cost exactly fits
tpm_waits_inclusive(L, lim, t, est) ==
  IF SumTokens(L.tm) + est >= lim.tpm /\ L.tm # <<>>
  THEN {MinuteWindow - (t - MinOf(Stamps(L.tm))) + SafetyMargin} ELSE {}

\* a token check without the guard on an empty ledger: it waits a full
\* window when nothing is recorded yet
tpm_waits_unguarded(L, lim, t, est) ==
  IF SumTokens(L.tm) + est > lim.tpm
  THEN {IF L.tm # <<>>
        THEN MinuteWindow - (t - MinOf(Stamps(L.tm))) + SafetyMargin
        ELSE MinuteWindow + SafetyMargin}
  ELSE {}

tpm_waits(L, lim, t, est) ==
  IF SumTokens(L.tm) + est > lim.tpm /\ L.tm # <<>>
  THEN {MinuteWindow - (t - MinOf(Stamps(L.tm))) + SafetyMargin} ELSE {}

tpd_waits(L, lim, t, est) ==
  IF SumTokens(L.td) + est > lim.tpd /\ L.td # <<>>
  THEN {DayWindow - (t - MinOf(Stamps(L.td))) + SafetyMargin} ELSE {}

\* min() of an empty list raises ValueError: the request branches call it
\* whenever len(ledger) >= limit, without testing the ledger for emptiness
calculate_wait_time_raises(L, lim) ==
  \/ Len(L.rm) >= lim.rpm /\ L.rm = <<>>
  \/ Len(L.rd) >= lim.rpd /\ L.rd = <<>>

OneOf(S) == IF S = {} THEN 0 ELSE MinOf(S)

\* a wait that adds the per-metric waits up
calculate_wait_time_sum(L, lim, t, est) ==
  OneOf(rpm_waits(L, lim, t)) + OneOf(rpd_waits(L, lim, t))
    + OneOf(tpm_waits(L, lim, t, est)) + OneOf(tpd_waits(L, lim, t, est))

\* a wait that is the shortest of the per-metric waits
calculate_wait_time_min(L, lim, t, est) ==
  LET wait_times == rpm_waits(L, lim, t) \cup rpd_waits(L, lim, t)
                      \cup tpm_waits(L, lim, t, est)
                      \cup tpd_waits(L, lim, t, est)
  IN IF wait_times # {} THEN MinOf(wait_times) ELSE 0

\* OpenAIRateLimiter._calculate_wait_time (when it does not raise)
calculate_wait_time(L, lim, t, est) ==
  LET wait_times == rpm_waits(L, lim, t) \cup rpd_waits(L, lim, t)
                      \cup tpm_waits(L, lim, t, est)
                      \cup tpd_waits(L, lim, t, est)
  IN IF wait_times # {} THEN MaxOf(wait_times) ELSE 0

\* a record step that forgets the day token ledger
record_request_partial(L, t, tokens_used) ==
  [rm |-> Append(L.rm, t),
   rd |-> Append(L.rd, t),
   tm |-> Append(L.tm, <<t, tokens_used>>),
   td |-> L.td]

\* a record step that puts the new entry in front
record_request_front(L, t, tokens_used) ==
  [rm |-> <<t>> \o L.rm,
   rd |-> <<t>> \o L.rd,
   tm |-> <<<<t, tokens_used>>>> \o L.tm,
   td |-> <<<<t, tokens_used>>>> \o L.td]

\* OpenAIRateLimiter._record_request
record_request(L, t, tokens_used) ==
  [rm |-> Append(L.rm, t),
   rd |-> Append(L.rd, t),
   tm |-> Append(L.tm, <<t, tokens_used>>),
   td |-> Append(L.td, <<t, tokens_used>>)]

\* a status whose headroom is not clamped at zero
get_current_status_signed(L, lim) ==
  [rpm |-> [current |-> Len(L.rm), limit |-> lim.rpm,
            remaining |-> lim.rpm - Len(L.rm)],
   rpd |-> [current |-> Len(L.rd), limit |-> lim.rpd,
            remaining |-> lim.rpd - Len(L.rd)],
   tpm |-> [current |-> SumTokens(L.tm), limit |-> lim.tpm,
            remaining |-> lim.tpm - SumTokens(L.tm)],
   tpd |-> [current |-> SumTokens(L.td), limit |-> lim.tpd,
            remaining |-> lim.tpd - SumTokens(L.td)]]

\* OpenAIRateLimiter._get_current_status
get_current_status(L, lim) ==
  [rpm |-> [current |-> Len(L.rm), limit |-> lim.rpm,
            remaining |-> Max(0, lim.rpm - Len(L.rm))],
   rpd |-> [current |-> Len(L.rd), limit |-> lim.rpd,
            remaining |-> Max(0, lim.rpd - Len(L.rd))],
   tpm |-> [current |-> SumTokens(L.tm), limit |-> lim.tpm,
            remaining |-> Max(0, lim.tpm - SumTokens(L.tm))],
   tpd |-> [current |-> SumTokens(L.td), limit |-> lim.tpd,
            remaining |-> Max(0, lim.tpd - SumTokens(L.td))]]

\* OpenAIRateLimiter.get_status: what a call made in the current state
\* returns; the action GetStatus is its effect on the ledgers
get_status ==
  get_current_status(cleanup_old_entries(Ledgers, clock), Limits)

\* current / limit < tenths / 10, the quotient and the comparison of floats
\* (limit # 0; a negative limit makes the quotient non-positive)
RatioBelow(current, limit, tenths) ==
  IF limit > 0 THEN 10 * current < tenths * limit
  ELSE 10 * current > tenths * limit

\* a classification that looks at the request ratio only
overall_health_rpm_only(status) ==
  IF RatioBelow(status.rpm.current, status.rpm.limit, GoodBelowTenths)
  THEN "good"
  ELSE IF RatioBelow(status.rpm.current, status.rpm.limit,
                     CautionBelowTenths)
       THEN "caution"
       ELSE "critical"

\* EmbeddingService.get_rate_limit_status: the overall_health entry
overall_health(status) ==
  LET rpm_good == RatioBelow(status.rpm.current, status.rpm.limit,
                             GoodBelowTenths)
      tpm_good == RatioBelow(status.tpm.current, status.tpm.limit,
                             GoodBelowTenths)
      rpm_fair == RatioBelow(status.rpm.current, status.rpm.limit,
                             CautionBelowTenths)
      tpm_fair == RatioBelow(status.tpm.current, status.tpm.limit,
                             CautionBelowTenths)
  IN IF rpm_good /\ tpm_good THEN "good"
     ELSE IF rpm_fair /\ tpm_fair THEN "caution"
          ELSE "critical"

\* the division by a ceiling of 0 raises ZeroDivisionError
get_rate_limit_status_raises == rpm_limit = 0 \/ tpm_limit = 0

\* EmbeddingService.get_rate_limit_status: the health a call made in the
\* current state reports (when it does not raise)
get_rate_limit_status == overall_health(get_status)

\* a lock that lets a caller in whatever its state
lock_is_free_barging == TRUE

\* asyncio.Lock: taken at once only when free and nobody is queued
lock_is_free == lock = NoCaller /\ waiters = <<>>

\* a sleep placed outside the "async with" block
lock_while_sleeping_released(p) == NoCaller

\* the lock's owner while the caller is suspended in asyncio.sleep: the
\* sleep is inside the "async with self._lock" block
lock_while_sleeping(p) == p

\* a lock that is never given back
lock_on_exit_kept(p) == p

\* the lock's owner when the "async with" block is left
lock_on_exit(p) == NoCaller

\* a sleep that is over as soon as it starts
wake_time_at_once(p) == Max(clock, now[p])

\* the instant asyncio.sleep(wait_time) is over
wake_time(p) == Max(clock, now[p] + wait_time[p])

SetLedgers(L) ==
  /\ requests_minute' = L.rm
  /\ requests_day' = L.rd
  /\ tokens_minute' = L.tm
  /\ tokens_day' = L.td

\* ------------------------------------------------------------------ Init
TypeInit ==
  /\ requests_minute = <<>>
  /\ requests_day = <<>>
  /\ tokens_minute = <<>>
  /\ tokens_day = <<>>
  /\ lock = NoCaller
  /\ waiters = <<>>
  /\ clock = 0
  /\ ticks = 0
  /\ pc = [p \in Callers |-> "idle"]
  /\ site = [p \in Callers |-> "none"]
  /\ estimated_tokens = [p \in Callers |-> 0]
  /\ now = [p \in Callers |-> 0]
  /\ wait_time = [p \in Callers |-> 0]
  /\ calls = 0
  /\ acquires_completed = 0
  /\ metered_calls = 0
  /\ updates = 0

\* OpenAIRateLimiter.__init__: the process-wide instance is built once, with
\* positive ceilings; any other ceiling arrives through update_limits
Init ==
  /\ rpm_limit \in PositiveRpm
  /\ rpd_limit \in PositiveRpd
  /\ tpm_limit \in PositiveTpm
  /\ tpd_limit \in PositiveTpd
  /\ TypeInit

\* OpenAIRateLimiter.__init__ with ceilings on which every health band can
\* be met within a few calls
InitHealth ==
  /\ rpm_limit \in HealthRpm
  /\ rpd_limit = DefaultRpd
  /\ tpm_limit \in HealthTpm
  /\ tpd_limit = DefaultTpd
  /\ TypeInit

\* OpenAIRateLimiter.__init__ with a TPM ceiling that one call can exceed
InitTight ==
  /\ rpm_limit \in PositiveRpm
  /\ rpd_limit \in PositiveRpd
  /\ tpm_limit \in TightTpm
  /\ tpd_limit \in PositiveTpd
  /\ TypeInit

\* OpenAIRateLimiter.__init__ with any ceilings: it validates none of them
InitAny ==
  /\ rpm_limit \in RpmChoices
  /\ rpd_limit \in RpdChoices
  /\ tpm_limit \in TpmChoices
  /\ tpd_limit \in TpdChoices
  /\ TypeInit

\* --------------------------------------------------------------- actions
\* acquire, from the moment the caller owns the lock up to its first await
\* or its return: lines 34-47 when no wait is needed, lines 34-41 otherwise
Admit(p, caller_site, est, waiters_after) ==
  LET t == clock
      L1 == cleanup_old_entries(Ledgers, t)
  IN /\ waiters' = waiters_after
     /\ UNCHANGED <<limits, clock, ticks, metered_calls, updates>>
     /\ estimated_tokens' = [estimated_tokens EXCEPT ![p] = est]
     /\ site' = [site EXCEPT ![p] = caller_site]
     /\ IF calculate_wait_time_raises(L1, Limits)
        THEN \* ValueError leaves the with block, which releases the lock
             /\ SetLedgers(L1)
             /\ lock' = lock_on_exit(p)
             /\ pc' = [pc EXCEPT ![p] = "raised"]
             /\ now' = [now EXCEPT ![p] = t]
             /\ wait_time' = [wait_time EXCEPT ![p] = 0]
             /\ UNCHANGED acquires_completed
        ELSE LET w == calculate_wait_time(L1, Limits, t, est)
             IN /\ now' = [now EXCEPT ![p] = t]
                /\ wait_time' = [wait_time EXCEPT ![p] = w]
                /\ IF w > 0
                   THEN /\ SetLedgers(L1)
                        /\ lock' = lock_while_sleeping(p)
                        /\ pc' = [pc EXCEPT ![p] = "sleeping"]
                        /\ UNCHANGED acquires_completed
                   ELSE /\ SetLedgers(record_request(L1, t, est))
                        /\ lock' = lock_on_exit(p)
                        /\ pc' = [pc EXCEPT ![p] = "acquired"]
                        /\ acquires_completed' = acquires_completed + 1

\* "async with self._lock" when the lock cannot be taken at once
Enqueue(p, caller_site, est, L) ==
  /\ SetLedgers(L)
  /\ waiters' = Append(waiters, p)
  /\ pc' = [pc EXCEPT ![p] = "blocked"]
  /\ site' = [site EXCEPT ![p] = caller_site]
  /\ estimated_tokens' = [estimated_tokens EXCEPT ![p] = est]
  /\ UNCHANGED <<limits, lock, clock, ticks, now, wait_time,
                 acquires_completed, metered_calls, updates>>

\* EmbeddingService.compute_embedding up to the end of its acquire call
ComputeEmbedding(p, len) ==
  /\ pc[p] = "idle"
  /\ calls < MaxCalls
  /\ calls' = calls + 1
  /\ IF lock_is_free
     THEN Admit(p, "compute_embedding", estimate_tokens(len), waiters)
     ELSE Enqueue(p, "compute_embedding", estimate_tokens(len), Ledgers)

\* EmbeddingService.test_connection up to the end of its acquire call
TestConnection(p) ==
  LET est == estimate_tokens(4)
      L1 == cleanup_old_entries(Ledgers, clock)
      status == get_current_status(L1, Limits)
  IN /\ pc[p] = "idle"
     /\ calls < MaxCalls
     /\ calls' = calls + 1
     /\ IF status.rpm.remaining = 0
        THEN /\ SetLedgers(L1)
             /\ UNCHANGED <<limits, lock, waiters, clock, ticks, pc, site,
                            locals, acquires_completed, metered_calls,
                            updates>>
        ELSE IF lock_is_free
             THEN Admit(p, "test_connection", est, waiters)
             ELSE Enqueue(p, "test_connection", est, L1)

\* the lock passes to the longest-waiting caller, which runs acquire's body
Grant(p) ==
  /\ lock = NoCaller
  /\ waiters # <<>>
  /\ p = Head(waiters)
  /\ pc[p] = "blocked"
  /\ UNCHANGED calls
  /\ Admit(p, site[p], estimated_tokens[p], Tail(waiters))

\* acquire after asyncio.sleep: lines 43-47
Wake(p) ==
  LET t == wake_time(p)
      L1 == cleanup_old_entries(Ledgers, t)
  IN /\ pc[p] = "sleeping"
     /\ clock' = t
     /\ now' = [now EXCEPT ![p] = t]
     /\ SetLedgers(record_request(L1, t, estimated_tokens[p]))
     /\ lock' = lock_on_exit(p)
     /\ pc' = [pc EXCEPT ![p] = "acquired"]
     /\ acquires_completed' = acquires_completed + 1
     /\ UNCHANGED <<limits, waiters, ticks, site, estimated_tokens,
                    wait_time, calls, metered_calls, updates>>

\* the except clause of the call site, reached by the ValueError of acquire:
\* compute_embedding logs and re-raises, test_connection reads the status
\* and returns an error report
HandleError(p) ==
  /\ pc[p] = "raised"
  /\ pc' = [pc EXCEPT ![p] = "idle"]
  /\ site' = [site EXCEPT ![p] = "none"]
  /\ estimated_tokens' = [estimated_tokens EXCEPT ![p] = 0]
  /\ now' = [now EXCEPT ![p] = 0]
  /\ IF site[p] = "test_connection"
     THEN SetLedgers(cleanup_old_entries(Ledgers, clock))
     ELSE UNCHANGED ledgers
  /\ UNCHANGED <<limits, lock, waiters, clock, ticks, wait_time,
                 counters, updates>>

\* the metered embedding request that follows acquire at both call sites;
\* test_connection reads the status once more when it has the answer
EmbedQuery(p) ==
  /\ pc[p] = "acquired"
  /\ metered_calls' = metered_calls + 1
  /\ pc' = [pc EXCEPT ![p] = "idle"]
  /\ site' = [site EXCEPT ![p] = "none"]
  /\ estimated_tokens' = [estimated_tokens EXCEPT ![p] = 0]
  /\ now' = [now EXCEPT ![p] = 0]
  /\ wait_time' = [wait_time EXCEPT ![p] = 0]
  /\ IF site[p] = "test_connection"
     THEN SetLedgers(cleanup_old_entries(Ledgers, clock))
     ELSE UNCHANGED ledgers
  /\ UNCHANGED <<limits, lock, waiters, clock, ticks, calls,
                 acquires_completed, updates>>

\* OpenAIService.get_answer: the chat completion request
GetAnswer(p) ==
  /\ pc[p] = "idle"
  /\ calls < MaxCalls
  /\ calls' = calls + 1
  /\ metered_calls' = metered_calls + 1
  /\ UNCHANGED <<limits, ledgers, lock, waiters, clock, ticks, pc, site,
                 locals, acquires_completed, updates>>

\* OpenAIRateLimiter.get_status, called from synchronous code at any time
GetStatus ==
  /\ SetLedgers(cleanup_old_entries(Ledgers, clock))
  /\ UNCHANGED <<limits, lock, waiters, clock, ticks, pc, site, locals,
                 counters, updates>>

\* EmbeddingService.get_rate_limit_status, behind GET /rate-limits: it calls
\* get_status, which prunes, and derives its report from the snapshot
GetRateLimitStatus ==
  /\ SetLedgers(cleanup_old_entries(Ledgers, clock))
  /\ UNCHANGED <<limits, lock, waiters, clock, ticks, pc, site, locals,
                 counters, updates>>

\* the ceilings after update_limits(rpm, rpd, tpm, tpd): an argument that is
\* not None replaces its ceiling
update_limits(lim, rpm, rpd, tpm, tpd) ==
  [rpm |-> IF rpm # <<>> THEN rpm[1] ELSE lim.rpm,
   rpd |-> IF rpd # <<>> THEN rpd[1] ELSE lim.rpd,
   tpm |-> IF tpm # <<>> THEN tpm[1] ELSE lim.tpm,
   tpd |-> IF tpd # <<>> THEN tpd[1] ELSE lim.tpd]

\* an update that starts the minute ledgers afresh
UpdateLimitsResetting(rpm, rpd, tpm, tpd) ==
  LET lim == update_limits(Limits, rpm, rpd, tpm, tpd)
  IN /\ updates < MaxUpdates
     /\ updates' = updates + 1
     /\ rpm_limit' = lim.rpm
     /\ rpd_limit' = lim.rpd
     /\ tpm_limit' = lim.tpm
     /\ tpd_limit' = lim.tpd
     /\ requests_minute' = <<>>
     /\ tokens_minute' = <<>>
     /\ UNCHANGED <<requests_day, tokens_day, lock, waiters, clock, ticks,
                    pc, site, locals, counters>>

\* OpenAIRateLimiter.update_limits
UpdateLimits(rpm, rpd, tpm, tpd) ==
  LET lim == update_limits(Limits, rpm, rpd, tpm, tpd)
  IN /\ updates < MaxUpdates
     /\ updates' = updates + 1
     /\ rpm_limit' = lim.rpm
     /\ rpd_limit' = lim.rpd
     /\ tpm_limit' = lim.tpm
     /\ tpd_limit' = lim.tpd
     /\ UNCHANGED <<ledgers, lock, waiters, clock, ticks, pc, site, locals,
                    counters>>

\* time.time() moves on
Tick(d) ==
  /\ ticks < MaxTicks
  /\ ticks' = ticks + 1
  /\ clock' = clock + d
  /\ UNCHANGED <<limits, ledgers, lock, waiters, pc, site, locals,
                 counters, updates>>

\* the queue of the lock without caller p
Without(queue, p) == SelectSeq(queue, LAMBDA q : q # p)

\* a cancellation that leaves the lock with the cancelled sleeper
CancelKeepingLock(p) ==
  /\ pc[p] \in {"blocked", "sleeping"}
  /\ pc' = [pc EXCEPT ![p] = "idle"]
  /\ waiters' = Without(waiters, p)
  /\ site' = [site EXCEPT ![p] = "none"]
  /\ estimated_tokens' = [estimated_tokens EXCEPT ![p] = 0]
  /\ now' = [now EXCEPT ![p] = 0]
  /\ UNCHANGED <<limits, ledgers, lock, clock, ticks, wait_time, counters,
                 updates>>

\* the task that runs acquire is cancelled at one of its two awaits:
\* CancelledError raised at "async with self._lock" takes the caller out of
\* the queue of the lock; raised at asyncio.sleep it leaves the with block,
\* which releases the lock, before anything is recorded. No call site
\* catches it (both catch Exception only).
Cancel(p) ==
  /\ pc[p] \in {"blocked", "sleeping"}
  /\ pc' = [pc EXCEPT ![p] = "idle"]
  /\ waiters' = Without(waiters, p)
  /\ lock' = IF pc[p] = "sleeping" THEN lock_on_exit(p) ELSE lock
  /\ site' = [site EXCEPT ![p] = "none"]
  /\ estimated_tokens' = [estimated_tokens EXCEPT ![p] = 0]
  /\ now' = [now EXCEPT ![p] = 0]
  /\ UNCHANGED <<limits, ledgers, clock, ticks, wait_time, counters,
                 updates>>

\* ------------------------------------------------------- specifications
NextFixed ==
  \/ \E p \in Callers, len \in TextLens : ComputeEmbedding(p, len)
  \/ \E p \in Callers : TestConnection(p)
  \/ \E p \in Callers : Grant(p)
  \/ \E p \in Callers : Wake(p)
  \/ \E p \in Callers : EmbedQuery(p)
  \/ \E p \in Callers : GetAnswer(p)
  \/ GetStatus
  \/ GetRateLimitStatus
  \/ \E d \in TickSteps : Tick(d)

Next ==
  \/ NextFixed
  \/ \E p \in Callers : HandleError(p)
  \/ \E rpm \in Optional(RpmChoices), rpd \in Optional(RpdChoices),
        tpm \in Optional(TpmChoices), tpd \in Optional(TpdChoices) :
        UpdateLimits(rpm, rpd, tpm, tpd)

\* ceilings reconfigured at run time, to any value
Spec == Init /\ [][Next]_vars

\* positive ceilings that never change
SpecFixed == Init /\ [][NextFixed]_vars

\* asyncio wakes a sleeper whose time is up and hands a released lock to the
\* first queued caller
FairSpecFixed ==
  /\ SpecFixed
  /\ WF_vars(\E p \in Callers : Wake(p))
  /\ WF_vars(\E p \in Callers : Grant(p))

\* fixed ceilings a few calls wide, for the health classification
SpecHealth == InitHealth /\ [][NextFixed]_vars

\* fixed ceilings, the TPM ceiling below the cost of a single call
SpecTight == InitTight /\ [][NextFixed]_vars

NextAbandon ==
  \/ NextFixed
  \/ \E p \in Callers : HandleError(p)
  \/ \E p \in Callers : Cancel(p)

\* ceilings of any sign fixed at construction, callers that may be cancelled
SpecAbandon == InitAny /\ [][NextAbandon]_vars

\* ------------------------------------------------- vocabulary of the claims
\* usage of the four metrics inside their windows at the current instant
InWindow == cleanup_old_entries(Ledgers, clock)

WithinCeilings(L, lim) ==
  /\ Len(L.rm) <= lim.rpm
  /\ Len(L.rd) <= lim.rpd
  /\ SumTokens(L.tm) <= lim.tpm
  /\ SumTokens(L.td) <= lim.tpd

\* granting est now would push no metric over its ceiling
HasRoom(L, lim, est) ==
  /\ Len(L.rm) < lim.rpm
  /\ Len(L.rd) < lim.rpd
  /\ SumTokens(L.tm) + est <= lim.tpm
  /\ SumTokens(L.td) + est <= lim.tpd

\* caller p has just returned from acquire
JustReturned(p) == pc[p] = "acquired" /\ now[p] = clock

\* in this step caller p calls acquire
CallsAcquire(p) ==
  /\ pc[p] = "idle"
  /\ pc'[p] \in {"blocked", "sleeping", "acquired", "raised"}

\* in this step caller p takes the lock and runs the start of acquire's body
EntersBody(p) ==
  /\ pc[p] \in {"idle", "blocked"}
  /\ pc'[p] \in {"sleeping", "acquired", "raised"}

\* in this step caller p finishes its sleep and runs the end of acquire's body
LeavesSleep(p) == pc[p] = "sleeping" /\ pc'[p] # "sleeping"

\* in this step caller p returns from acquire
Returns(p) == pc[p] # "acquired" /\ pc'[p] = "acquired"

\* ------------------------------------------------------------------ C1
\* C1: immediately after each acquire returns (ceilings fixed and positive),
\* request counts and token sums inside the minute and day windows are at
\* most the RPM, RPD, TPM and TPD ceilings.
C1_CeilingInvariant ==
  (\E p \in Callers : JustReturned(p)) => WithinCeilings(InWindow, Limits)

\* ------------------------------------------------------------------ C2
\* callers inside acquire's prune/measure/decide/wait/record sequence
Inside == {p \in Callers : pc[p] = "sleeping"}

\* C2: at most one caller is inside the admission cycle at any time, and
\* while one caller is between its measuring and its recording step no other
\* caller of acquire prunes, measures or records.
C2_MutualExclusion ==
  /\ [](Cardinality(Inside) <= 1)
  /\ [][\A p \in Callers : pc[p] = "sleeping" =>
          \A q \in Callers \ {p} : ~EntersBody(q) /\ ~LeavesSleep(q)]_vars

C2_Witness ==
  \E p, q \in Callers :
    /\ pc[p] = "sleeping"
    /\ pc[q] = "blocked"
    /\ site[q] = "test_connection"

\* ------------------------------------------------------------------ C3
\* C3 as stated: whenever a caller is suspended for its computed wait the
\* lock is free, so that another caller can enter the critical section.
C3_LockFreeDuringWait ==
  \A p \in Callers : pc[p] = "sleeping" => lock = NoCaller

\* C3 as amended: whenever a caller is suspended for its computed wait it
\* still owns the lock, no other caller is inside acquire's body, and every
\* other caller that has called acquire since is queued on the lock.
C3_LockHeldDuringWait ==
  \A p \in Callers : pc[p] = "sleeping" =>
    /\ lock = p
    /\ \A q \in Callers \ {p} :
         /\ pc[q] # "sleeping"
         /\ pc[q] = "blocked" <=> \E i \in 1..Len(waiters) : waiters[i] = q

C3_Witness ==
  \E p \in Callers :
    /\ pc[p] = "sleeping"
    /\ clock > now[p]
    /\ Len(waiters) = 1

\* ------------------------------------------------------------------ C4
\* C4 as stated: a call to acquire made at an instant at which all four
\* metrics have room for its cost records and returns with no added delay,
\* also while other callers are inside acquire.
C4_NoWaitUnderHeadroom ==
  [][\A p \in Callers :
       (CallsAcquire(p) /\ HasRoom(InWindow, Limits, estimated_tokens'[p]))
         => Returns(p) /\ wait_time'[p] = 0 /\ clock' = clock]_vars

\* C4 as amended: a caller that takes the lock at an instant at which all
\* four metrics have room for its cost records at that instant, with a wait
\* of 0; a caller that calls acquire while the lock is owned or queued for
\* is queued, whatever room the metrics have.
C4_NoWaitUnderHeadroomOnceLocked ==
  [][\A p \in Callers :
       /\ (EntersBody(p) /\ HasRoom(InWindow, Limits, estimated_tokens'[p]))
            => /\ Returns(p)
               /\ wait_time'[p] = 0
               /\ now'[p] = clock
               /\ clock' = clock
       /\ (CallsAcquire(p) /\ ~lock_is_free)
            => /\ pc'[p] = "blocked"
               /\ acquires_completed' = acquires_completed]_vars

C4_Witness ==
  \E p, q \in Callers :
    /\ pc[p] = "sleeping"
    /\ pc[q] = "blocked"
    /\ HasRoom(InWindow, Limits, estimated_tokens[q])

\* ------------------------------------------------------------------ C5
\* C5: with positive ceilings and finitely many callers, every caller that
\* is queued on the lock or asleep in acquire eventually returns from
\* acquire having recorded its usage, and acquire never rejects a call.
C5_AlwaysEventuallyAdmit ==
  /\ \A p \in Callers :
       (pc[p] \in {"blocked", "sleeping"}) ~> (pc[p] = "acquired")
  /\ [](\A p \in Callers : pc[p] # "raised")

C5_Witness ==
  \E p, q \in Callers :
    /\ p # q
    /\ pc[p] = "acquired" /\ wait_time[p] > 0
    /\ pc[q] = "acquired" /\ wait_time[q] > 0

\* ------------------------------------------------------------------ C6
KeptRequests(seq, t, window) == SelectSeq(seq, LAMBDA x : x > t - window)

KeptTokens(seq, t, window) == SelectSeq(seq, LAMBDA e : e[1] > t - window)

\* the step appends one entry, stamped at p's current time and carrying p's
\* cost, to each ledger as pruned at that time
AppendsOneEntry(p) ==
  LET t == now'[p]
      c == estimated_tokens'[p]
  IN /\ t = clock'
     /\ requests_minute' = Append(KeptRequests(requests_minute, t, 60), t)
     /\ requests_day' = Append(KeptRequests(requests_day, t, 86400), t)
     /\ tokens_minute' = Append(KeptTokens(tokens_minute, t, 60), <<t, c>>)
     /\ tokens_day' = Append(KeptTokens(tokens_day, t, 86400), <<t, c>>)

\* C6: within one acquire call the caller sleeps at most once; when the
\* sleep is over the ledgers are pruned at the new current time and the
\* caller is granted with no further check; every acquire that returns
\* appends exactly one entry, with one timestamp and the caller's cost, to
\* each of the four ledgers.
C6_SingleWaitThenGrant ==
  [][\A p \in Callers :
       /\ (pc'[p] = "sleeping" /\ pc[p] # "sleeping") => EntersBody(p)
       /\ LeavesSleep(p) => Returns(p)
       /\ Returns(p) => AppendsOneEntry(p) /\ estimated_tokens'[p] >= 1
       /\ Returns(p) => acquires_completed' = acquires_completed + 1]_vars

C6_Witness ==
  \E p \in Callers :
    /\ JustReturned(p)
    /\ wait_time[p] > 0
    /\ tpm_limit > 0
    /\ SumTokens(tokens_minute) > tpm_limit

\* ------------------------------------------------------------------ C7
\* the oldest timestamp of a non-empty ledger
OldestRequest(seq) ==
  CHOOSE x \in {seq[i] : i \in 1..Len(seq)} :
    \A i \in 1..Len(seq) : x <= seq[i]

OldestToken(seq) ==
  CHOOSE x \in {seq[i][1] : i \in 1..Len(seq)} :
    \A i \in 1..Len(seq) : x <= seq[i][1]

\* window length - age of the oldest entry + 1 second, for every violated
\* metric whose ledger has an oldest entry
MetricWaits(L, lim, t, est) ==
  (IF L.rm # <<>> /\ Len(L.rm) + 1 > lim.rpm
   THEN {60 - (t - OldestRequest(L.rm)) + 1} ELSE {})
  \cup
  (IF L.rd # <<>> /\ Len(L.rd) + 1 > lim.rpd
   THEN {86400 - (t - OldestRequest(L.rd)) + 1} ELSE {})
  \cup
  (IF L.tm # <<>> /\ SumTokens(L.tm) + est > lim.tpm
   THEN {60 - (t - OldestToken(L.tm)) + 1} ELSE {})
  \cup
  (IF L.td # <<>> /\ SumTokens(L.td) + est > lim.tpd
   THEN {86400 - (t - OldestToken(L.td)) + 1} ELSE {})

ExpectedWait(L, lim, t, est) ==
  LET W == MetricWaits(L, lim, t, est)
  IN IF W = {} THEN 0 ELSE CHOOSE m \in W : \A w \in W : m >= w

\* C7: the wait acquire computes is the maximum, over the violated metrics,
\* of (window length - age of the oldest entry of that metric's ledger + 1),
\* with windows of 60 s and 86400 s, and 0 when no metric is violated; the
\* sleep ends once that wait has passed.
C7_MaximumNotSumWait ==
  [][\A p \in Callers :
       /\ (EntersBody(p) /\ pc'[p] \in {"sleeping", "acquired"})
            => wait_time'[p] =
                 ExpectedWait(InWindow, Limits, clock, estimated_tokens'[p])
       /\ LeavesSleep(p)
            => clock' = IF clock >= now[p] + wait_time[p]
                        THEN clock ELSE now[p] + wait_time[p]]_vars

C7_Witness ==
  \E p \in Callers :
    /\ pc[p] = "sleeping"
    /\ now[p] = clock
    /\ Cardinality(MetricWaits(InWindow, Limits, clock,
                                estimated_tokens[p])) >= 2
    /\ wait_time[p] > 61

\* ------------------------------------------------------------------ C8
\* granting est now would push some metric over its ceiling
Violated(L, lim, est) ==
  \/ Len(L.rm) + 1 > lim.rpm
  \/ Len(L.rd) + 1 > lim.rpd
  \/ SumTokens(L.tm) + est > lim.tpm
  \/ SumTokens(L.td) + est > lim.tpd

\* ... and the ledger of such a metric holds at least one entry
ViolatedWithEntries(L, lim, est) ==
  \/ L.rm # <<>> /\ Len(L.rm) + 1 > lim.rpm
  \/ L.rd # <<>> /\ Len(L.rd) + 1 > lim.rpd
  \/ L.tm # <<>> /\ SumTokens(L.tm) + est > lim.tpm
  \/ L.td # <<>> /\ SumTokens(L.td) + est > lim.tpd

C9_MeteredCallsGated == metered_calls <= acquires_completed

\* ------------------------------------------------------------------ C10
\* C10: whatever the ledgers and the ceilings set by the constructor and
\* update_limits, a call to acquire records or keeps waiting; it never
\* raises an exception.
C10_AcquireNeverRaises == \A p \in Callers : pc[p] # "raised"

\* ------------------------------------------------------------------ C11
\* some ceiling in force is zero or negative
NonPositiveCeiling ==
  rpm_limit <= 0 \/ rpd_limit <= 0 \/ tpm_limit <= 0 \/ tpd_limit <= 0

\* C11: a ceiling of zero or negative makes its metric permanently violated:
\* while such a ceiling is in force no acquire is granted without waiting,
\* that is, every acquire that returns does so out of its sleep, after a
\* positive wait.
C11_NonPositiveCeilingAlwaysWaits ==
  [][\A p \in Callers :
       (Returns(p) /\ NonPositiveCeiling)
         => pc[p] = "sleeping" /\ wait_time[p] > 0]_vars

\* ------------------------------------------------------------------ C12
\* C12: every pruning and every write of the four ledgers is done by a
\* caller of acquire that owns the lock during the step; in particular,
\* while a caller is suspended in its wait inside the critical section, no
\* step but that caller's own changes a ledger.
C12_LedgerAccessUnderLock ==
  [][/\ (ledgers' # ledgers)
          => \E p \in Callers : EntersBody(p) \/ LeavesSleep(p)
     /\ \A p \in Callers :
          (pc[p] = "sleeping" /\ ledgers' # ledgers) => LeavesSleep(p)]_vars

\* ------------------------------------------------------------------ C13
\* number of request entries stamped inside the window that ends at t
EntriesInWindow(seq, t, window) ==
  Cardinality({i \in 1..Len(seq) : seq[i] > t - window})

\* summed cost of the token entries stamped inside the window that ends at t
RECURSIVE CostInWindow(_, _, _)
CostInWindow(seq, t, window) ==
  IF seq = <<>> THEN 0
  ELSE (IF Head(seq)[1] > t - window THEN Head(seq)[2] ELSE 0)
         + CostInWindow(Tail(seq), t, window)

Headroom(limit, current) ==
  IF limit - current > 0 THEN limit - current ELSE 0

\* C13: get_status reports, for RPM, RPD, TPM and TPD, current = the number
\* of request entries (the summed cost of the token entries) stamped inside
\* the trailing window at the time of the call, limit = the ceiling in force
\* and remaining = max(0, limit - current), which is never negative, also
\* when current is above the ceiling.
C13_StatusSnapshot ==
  LET s == get_status
  IN /\ s.rpm.current = EntriesInWindow(requests_minute, clock, 60)
     /\ s.rpd.current = EntriesInWindow(requests_day, clock, 86400)
     /\ s.tpm.current = CostInWindow(tokens_minute, clock, 60)
     /\ s.tpd.current = CostInWindow(tokens_day, clock, 86400)
     /\ s.rpm.limit = rpm_limit /\ s.rpd.limit = rpd_limit
     /\ s.tpm.limit = tpm_limit /\ s.tpd.limit = tpd_limit
     /\ \A m \in {s.rpm, s.rpd, s.tpm, s.tpd} :
          m.remaining = Headroom(m.limit, m.current) /\ m.remaining >= 0

C13_Witness ==
  /\ get_status.tpd.current > tpd_limit
  /\ get_status.rpd.remaining > 0
  /\ Len(requests_minute) > get_status.rpm.current

\* ------------------------------------------------------------------ C14
\* request entries inside the window at t1 that have left it at t2
AgedOutEntries(seq, t1, t2, window) ==
  Cardinality({i \in 1..Len(seq) :
                 seq[i] > t1 - window /\ seq[i] <= t2 - window})

\* summed cost of the token entries inside the window at t1 and out at t2
RECURSIVE AgedOutCost(_, _, _, _)
AgedOutCost(seq, t1, t2, window) ==
  IF seq = <<>> THEN 0
  ELSE (IF Head(seq)[1] > t1 - window /\ Head(seq)[1] <= t2 - window
        THEN Head(seq)[2] ELSE 0)
         + AgedOutCost(Tail(seq), t1, t2, window)

\* C14: over any step in which no acquire completes, whatever get_status
\* calls are made, the current that get_status reports never increases for
\* any metric: it goes down by exactly the entries (their number, or their
\* summed cost) that have crossed the window boundary, and so is unchanged
\* when none has.
C14_MonotonicPruning ==
  [][(\A p \in Callers : ~Returns(p)) =>
       LET before == get_status
           after == get_status'
           rpm_aged == AgedOutEntries(requests_minute, clock, clock', 60)
           rpd_aged == AgedOutEntries(requests_day, clock, clock', 86400)
           tpm_aged == AgedOutCost(tokens_minute, clock, clock', 60)
           tpd_aged == AgedOutCost(tokens_day, clock, clock', 86400)
       IN /\ after.rpm.current = before.rpm.current - rpm_aged
          /\ after.rpd.current = before.rpd.current - rpd_aged
          /\ after.tpm.current = before.tpm.current - tpm_aged
          /\ after.tpd.current = before.tpd.current - tpd_aged
          /\ rpm_aged >= 0 /\ rpd_aged >= 0
          /\ tpm_aged >= 0 /\ tpd_aged >= 0]_vars

\* a status call has pruned an aged-out entry from the minute ledgers
C14_Witness ==
  /\ updates = 0
  /\ \A p \in Callers : pc[p] \in {"idle", "acquired"}
  /\ requests_day # <<>>
  /\ requests_minute = <<>>
  /\ tokens_minute = <<>>
  /\ get_status.rpd.current = Len(requests_day)

\* ------------------------------------------------------------------ C15
\* the instants at which the ledgers of a state are pruned
PruneTimes == {clock, clock + 30, clock + 60, clock + 86400}

\* the entries of seq stamped after bound (from bound on), in their order
RECURSIVE RequestsAfter(_, _)
RequestsAfter(seq, bound) ==
  IF seq = <<>> THEN <<>>
  ELSE IF Head(seq) > bound
       THEN <<Head(seq)>> \o RequestsAfter(Tail(seq), bound)
       ELSE RequestsAfter(Tail(seq), bound)

RECURSIVE RequestsFrom(_, _)
RequestsFrom(seq, bound) ==
  IF seq = <<>> THEN <<>>
  ELSE IF Head(seq) >= bound
       THEN <<Head(seq)>> \o RequestsFrom(Tail(seq), bound)
       ELSE RequestsFrom(Tail(seq), bound)

RECURSIVE TokensAfter(_, _)
TokensAfter(seq, bound) ==
  IF seq = <<>> THEN <<>>
  ELSE IF Head(seq)[1] > bound
       THEN <<Head(seq)>> \o TokensAfter(Tail(seq), bound)
       ELSE TokensAfter(Tail(seq), bound)

RECURSIVE TokensFrom(_, _)
TokensFrom(seq, bound) ==
  IF seq = <<>> THEN <<>>
  ELSE IF Head(seq)[1] >= bound
       THEN <<Head(seq)>> \o TokensFrom(Tail(seq), bound)
       ELSE TokensFrom(Tail(seq), bound)

\* pruning is idempotent and pruning at t1 and then at t2 >= t1 is pruning
\* at t2
PruneComposes(L, t1, t2) ==
  LET P1 == cleanup_old_entries(L, t1)
  IN /\ cleanup_old_entries(P1, t1) = P1
     /\ cleanup_old_entries(P1, t2) = cleanup_old_entries(L, t2)

\* C15 as stated: pruning is idempotent and order-independent, and pruning
\* at t keeps, in their order, exactly the entries with timestamp
\* >= t - window (60 s for the minute ledgers, 86400 s for the day ledgers).
C15_PruneKeepsFromBoundary ==
  \A t1 \in PruneTimes : \A t2 \in PruneTimes : t1 <= t2 =>
    /\ PruneComposes(Ledgers, t1, t2)
    /\ cleanup_old_entries(Ledgers, t1) =
         [rm |-> RequestsFrom(requests_minute, t1 - 60),
          tm |-> TokensFrom(tokens_minute, t1 - 60),
          rd |-> RequestsFrom(requests_day, t1 - 86400),
          td |-> TokensFrom(tokens_day, t1 - 86400)]

\* C15 as amended: pruning is idempotent and order-independent, and pruning
\* at t keeps, in their order, exactly the entries with timestamp
\* > t - window; an entry stamped exactly t - window is removed.
C15_PruneKeepsAfterBoundary ==
  \A t1 \in PruneTimes : \A t2 \in PruneTimes : t1 <= t2 =>
    /\ PruneComposes(Ledgers, t1, t2)
    /\ cleanup_old_entries(Ledgers, t1) =
         [rm |-> RequestsAfter(requests_minute, t1 - 60),
          tm |-> TokensAfter(tokens_minute, t1 - 60),
          rd |-> RequestsAfter(requests_day, t1 - 86400),
          td |-> TokensAfter(tokens_day, t1 - 86400)]

\* one entry on the minute boundary, which goes, and a newer one, which stays
C15_Witness ==
  \E t \in PruneTimes :
    /\ Len(requests_minute) = 2
    /\ requests_minute[1] = t - 60
    /\ cleanup_old_entries(Ledgers, t).rm = <<requests_minute[2]>>
    /\ cleanup_old_entries(Ledgers, t).rd = requests_day

\* ------------------------------------------------------------------ C16
NonDecreasing(stamps) ==
  \A i \in 1..Len(stamps) : \A j \in 1..Len(stamps) :
    i <= j => stamps[i] <= stamps[j]

StampsOf(tok) == [i \in 1..Len(tok) |-> tok[i][1]]

\* C16: in every reachable state the timestamps of each of the four ledgers
\* are non-decreasing in insertion order, and none is ahead of the clock.
C16_LedgerOrdering ==
  /\ NonDecreasing(requests_minute)
  /\ NonDecreasing(requests_day)
  /\ NonDecreasing(StampsOf(tokens_minute))
  /\ NonDecreasing(StampsOf(tokens_day))
  /\ \A x \in Range(requests_day) : x <= clock

C16_Witness ==
  /\ updates = 1
  /\ Len(requests_day) = 3
  /\ requests_day[1] < requests_day[2]
  /\ requests_day[2] < requests_day[3]
  /\ Len(requests_minute) = 2

\* ------------------------------------------------------------------ C17
\* C17: update_limits sets each ceiling for which a value is supplied to
\* that value and leaves every other ceiling as it was; it changes no entry
\* of any ledger and neither the lock nor its queue; no other operation
\* changes a ceiling.
C17_UpdateLimitsFrame ==
  /\ [](updates < MaxUpdates =>
          \A rpm \in Optional(RpmChoices), rpd \in Optional(RpdChoices),
             tpm \in Optional(TpmChoices), tpd \in Optional(TpdChoices) :
            LET after == update_limits(Limits, rpm, rpd, tpm, tpd)
            IN /\ rpm # <<>> => after.rpm = rpm[1]
               /\ rpd # <<>> => after.rpd = rpd[1]
               /\ tpm # <<>> => after.tpm = tpm[1]
               /\ tpd # <<>> => after.tpd = tpd[1]
               /\ rpm = <<>> => after.rpm = rpm_limit
               /\ rpd = <<>> => after.rpd = rpd_limit
               /\ tpm = <<>> => after.tpm = tpm_limit
               /\ tpd = <<>> => after.tpd = tpd_limit)
  /\ [][/\ (limits' # limits) => updates' # updates
        /\ (updates' # updates) =>
             /\ ledgers' = ledgers
             /\ lock' = lock
             /\ waiters' = waiters
             /\ pc' = pc]_vars

\* a ceiling lowered below the recorded usage, the entries still there, and
\* a caller asleep with the lock
C17_Witness ==
  /\ updates = 1
  /\ rpm_limit = 0
  /\ tpm_limit = 4
  /\ Len(requests_minute) = 2
  /\ \E p \in Callers : pc[p] = "sleeping" /\ lock = p

\* ------------------------------------------------------------------ C18
\* granting est now keeps RPD, TPM and TPD within their ceilings
OthersNotBinding(L, lim, est) ==
  /\ Len(L.rd) < lim.rpd
  /\ SumTokens(L.tm) + est <= lim.tpm
  /\ SumTokens(L.td) + est <= lim.tpd

\* C18: with the RPM ceiling at 1 (as set by update_limits(rpm=1)) and the
\* other metrics not binding, an acquire that finds in the minute window an
\* entry recorded earlier, under whatever ceiling, does not record at once:
\* it waits (60 - time since that entry) + 1 seconds and records when that
\* wait is over.
C18_ReconfigurationTakesEffect ==
  [][\A p \in Callers :
       /\ (/\ EntersBody(p)
           /\ rpm_limit = 1
           /\ InWindow.rm # <<>>
           /\ OthersNotBinding(InWindow, Limits, estimated_tokens'[p]))
            => /\ pc'[p] = "sleeping"
               /\ wait_time'[p] =
                    (60 - (clock - OldestRequest(InWindow.rm))) + 1
       /\ (LeavesSleep(p) /\ rpm_limit = 1)
            => Returns(p) /\ clock' >= now[p] + wait_time[p]]_vars

\* two entries recorded under a ceiling of 2, the ceiling now 1
C18_Witness ==
  \E p \in Callers :
    /\ pc[p] = "sleeping" /\ now[p] = clock
    /\ updates = 1
    /\ rpm_limit = 1
    /\ Len(requests_minute) = 2
    /\ clock > requests_minute[1]
    /\ OthersNotBinding(Ledgers, Limits, estimated_tokens[p])
    /\ wait_time[p] = 61 - (clock - requests_minute[1])

\* ------------------------------------------------------------------ C19
\* C19: with a fixed RPM ceiling k >= 1 and the other three metrics not
\* binding, an acquire that finds fewer than k entries in the minute window
\* records and returns without waiting; one that finds k entries (the
\* k+1-th call of the window) is delayed by (60 - time since the first of
\* them) + 1 seconds and then returns.
C19_RpmSaturation ==
  [][\A p \in Callers :
       /\ (/\ EntersBody(p)
           /\ rpm_limit >= 1
           /\ OthersNotBinding(InWindow, Limits, estimated_tokens'[p]))
            => IF Len(InWindow.rm) < rpm_limit
               THEN /\ Returns(p)
                    /\ wait_time'[p] = 0
                    /\ clock' = clock
               ELSE /\ pc'[p] = "sleeping"
                    /\ Len(InWindow.rm) = rpm_limit
                    /\ wait_time'[p] = (60 - (clock - InWindow.rm[1])) + 1
       /\ LeavesSleep(p)
            => Returns(p) /\ clock' >= now[p] + wait_time[p]]_vars

\* the third call of a window under RPM = 2, some time after the first
C19_Witness ==
  \E p \in Callers :
    /\ pc[p] = "sleeping" /\ now[p] = clock
    /\ rpm_limit = 2
    /\ Len(requests_minute) = 2
    /\ clock > requests_minute[1]
    /\ OthersNotBinding(Ledgers, Limits, estimated_tokens[p])
    /\ wait_time[p] = 61 - (clock - requests_minute[1])

\* ------------------------------------------------------------------ C20
\* a caller that entered acquire's body after another one had started to
\* sleep has recorded while that one is still asleep
Overtakes ==
  \E p \in Callers : \E q \in Callers \ {p} :
    /\ pc[p] = "sleeping"
    /\ pc[q] = "acquired"
    /\ now[q] > now[p]

LargerRatio(a, b, c, d) == IF a * d >= c * b THEN <<a, b>> ELSE <<c, d>>

\* the worse of the RPM and TPM usage ratios in the current window
WorseUsage ==
  LargerRatio(EntriesInWindow(requests_minute, clock, 60), rpm_limit,
              CostInWindow(tokens_minute, clock, 60), tpm_limit)

\* C21: with positive RPM and TPM ceilings overall_health is "good" exactly
\* when the larger of current_rpm/rpm_limit and current_tpm/tpm_limit is
\* below 0.7, "caution" exactly when it is at least 0.7 and below 0.9, and
\* "critical" otherwise; producing the report changes no ceiling and adds
\* no ledger entry.
C21_HealthClassification ==
  /\ []((rpm_limit > 0 /\ tpm_limit > 0) =>
          LET worse == WorseUsage
              health == get_rate_limit_status
          IN /\ health = "good" <=> 10 * worse[1] < 7 * worse[2]
             /\ health = "caution" <=> /\ 10 * worse[1] >= 7 * worse[2]
                                       /\ 10 * worse[1] < 9 * worse[2]
             /\ health = "critical" <=> 10 * worse[1] >= 9 * worse[2])
  /\ [][GetRateLimitStatus =>
          /\ limits' = limits
          /\ Len(requests_minute') <= Len(requests_minute)
          /\ Len(requests_day') <= Len(requests_day)
          /\ Len(tokens_minute') <= Len(tokens_minute)
          /\ Len(tokens_day') <= Len(tokens_day)
          /\ lock' = lock]_vars

\* caution on account of the tokens, with the requests in the good band
C21_Witness ==
  /\ get_rate_limit_status = "caution"
  /\ 10 * Len(requests_minute) < 7 * rpm_limit
  /\ tokens_minute # <<>>
  /\ clock < 60

\* ------------------------------------------------------------------ C22
\* text lengths, every one up to the longest
AllTextLens == 0..MaxTextLen

\* floor(n / 4): the q with 4q <= n < 4q + 4
FloorQuarter(n) == CHOOSE q \in 0..n : 4 * q <= n /\ n < 4 * q + 4

Last(seq) == seq[Len(seq)]

\* C22: estimate_tokens(text) = max(1, floor(len(text) / 4)), an integer
\* >= 1 also for the empty text and non-decreasing in the length of the
\* text; the cost a caller hands to acquire is such an estimate, it is kept
\* as handed while the caller is queued or asleep, and it is the cost of the
\* entry recorded in both token ledgers when acquire returns.
C22_EstimatedCost ==
  /\ [](\A n \in AllTextLens :
          /\ estimate_tokens(n) =
               (IF FloorQuarter(n) >= 1 THEN FloorQuarter(n) ELSE 1)
          /\ estimate_tokens(n) >= 1
          /\ \A m \in 0..n : estimate_tokens(m) <= estimate_tokens(n))
  /\ [][\A p \in Callers :
          /\ CallsAcquire(p)
               => \E n \in AllTextLens :
                    estimated_tokens'[p] = estimate_tokens(n)
          /\ pc[p] \in {"blocked", "sleeping"}
               => estimated_tokens'[p] = estimated_tokens[p]
          /\ Returns(p)
               => /\ Last(tokens_minute') = <<now'[p], estimated_tokens'[p]>>
                  /\ Last(tokens_day') = <<now'[p], estimated_tokens'[p]>>
                  /\ Last(requests_minute') = now'[p]
                  /\ pc[p] # "idle"
                       => estimated_tokens'[p] = estimated_tokens[p]]_vars

\* a cost of 2 recorded as handed, after a wait
C22_Witness ==
  \E p \in Callers :
    /\ JustReturned(p)
    /\ wait_time[p] > 0
    /\ estimated_tokens[p] = 2
    /\ Last(tokens_minute) = <<clock, 2>>
    /\ Last(tokens_day) = <<clock, 2>>

\* ------------------------------------------------------------------ C23
\* C23: with the RPM and RPD ceilings fixed and positive, in every reachable
\* state the request-minute ledger holds at most rpm_limit entries and the
\* request-day ledger at most rpd_limit entries, whatever token costs the
\* callers supply.
C23_RequestCeilings ==
  /\ Len(requests_minute) <= rpm_limit
  /\ Len(requests_day) <= rpd_limit

\* both request ledgers full while the token costs are over the TPM ceiling
C23_Witness ==
  /\ Len(requests_minute) = rpm_limit
  /\ Len(requests_day) = rpd_limit
  /\ SumTokens(tokens_minute) > tpm_limit
  /\ \E p \in Callers : JustReturned(p) /\ wait_time[p] > 0

\* ------------------------------------------------------------------ C24
\* C24: once update_limits has left a positive ceiling below the usage of
\* its metric (before the acquire starts, or while its caller is suspended
\* in the wait), the usage of that metric in its window is within the new
\* ceiling right after that acquire returns.
C24_CeilingsAcrossReconfiguration ==
  [][\A p \in Callers :
       (Returns(p) /\ updates > 0) =>
         /\ (rpm_limit > 0 /\ Len(InWindow.rm) > rpm_limit)
              => Len(InWindow.rm)' <= rpm_limit'
         /\ (rpd_limit > 0 /\ Len(InWindow.rd) > rpd_limit)
              => Len(InWindow.rd)' <= rpd_limit'
         /\ (tpm_limit > 0 /\ SumTokens(InWindow.tm) > tpm_limit)
              => SumTokens(InWindow.tm)' <= tpm_limit'
         /\ (tpd_limit > 0 /\ SumTokens(InWindow.td) > tpd_limit)
              => SumTokens(InWindow.td)' <= tpd_limit']_vars

\* ------------------------------------------------------------------ C25
\* token costs, up to one more than the largest token ceiling
Costs == 1..5

\* no metric other than the named token metric asks for a wait
OnlyTpmInQuestion(L, lim, est) ==
  /\ Len(L.rm) < lim.rpm
  /\ Len(L.rd) < lim.rpd
  /\ tpd_waits(L, lim, clock, est) = {}

\* C25: when the minute (resp. day) token ledger is empty after pruning,
\* the TPM (resp. TPD) metric contributes no wait whatever the estimated
\* cost is; and when no other metric is violated, acquire records the cost
\* immediately, also when that cost alone is larger than the token ceiling.
C25_EmptyTokenLedgerNeverDelays ==
  /\ [](\A est \in Costs :
          /\ InWindow.tm = <<>> => tpm_waits(InWindow, Limits, clock, est) = {}
          /\ InWindow.td = <<>> => tpd_waits(InWindow, Limits, clock, est) = {})
  /\ [][\A p \in Callers :
          (/\ EntersBody(p)
           /\ InWindow.tm = <<>>
           /\ OnlyTpmInQuestion(InWindow, Limits, estimated_tokens'[p]))
            => /\ Returns(p)
               /\ wait_time'[p] = 0
               /\ tokens_minute' = <<<<clock, estimated_tokens'[p]>>>>
               /\ Last(tokens_day') = <<clock, estimated_tokens'[p]>>]_vars

\* a cost above the TPM ceiling recorded at once on an empty minute ledger
C25_Witness ==
  \E p \in Callers :
    /\ JustReturned(p)
    /\ wait_time[p] = 0
    /\ tokens_minute = <<<<clock, estimated_tokens[p]>>>>
    /\ estimated_tokens[p] > tpm_limit
    /\ Len(requests_minute) <= rpm_limit

\* ------------------------------------------------------------------ C26
Metrics == {"rpm", "rpd", "tpm", "tpd"}

\* granting est now would push metric m over its ceiling
MetricViolated(L, lim, est, m) ==
  CASE m = "rpm" -> Len(L.rm) + 1 > lim.rpm
    [] m = "rpd" -> Len(L.rd) + 1 > lim.rpd
    [] m = "tpm" -> SumTokens(L.tm) + est > lim.tpm
    [] m = "tpd" -> SumTokens(L.td) + est > lim.tpd

\* the timestamps of the ledger of metric m, in insertion order
MetricStamps(L, m) ==
  CASE m = "rpm" -> L.rm
    [] m = "rpd" -> L.rd
    [] m = "tpm" -> StampsOf(L.tm)
    [] m = "tpd" -> StampsOf(L.td)

\* instants at which a sleeper that asked for wait w at t0 may be resumed
ResumeTimes(t0, w) == {t0 + w, t0 + w + 30}

\* the pruning at t removes from the ledger of m the oldest entry of L
ClearsOldest(L, t, m) ==
  LET before == MetricStamps(L, m)
      after == MetricStamps(cleanup_old_entries(L, t), m)
  IN /\ Len(after) < Len(before)
     /\ before # <<>> => MinOf(Range(before)) \notin Range(after)

\* the second half of acquire, once the sleep is over: not before the wait
\* has elapsed, it prunes at the new instant and records the entry
ResumesAfterWait(p) ==
  /\ Returns(p)
  /\ clock' >= now[p] + wait_time[p]
  /\ now'[p] = clock'
  /\ Ledgers' = record_request(cleanup_old_entries(Ledgers, clock'), clock',
                               estimated_tokens[p])

\* while p sleeps its wait stands and no ledger gains an entry
SleepsOn(p) ==
  /\ now'[p] = now[p]
  /\ wait_time'[p] = wait_time[p]
  /\ \A t \in ResumeTimes(now[p], wait_time[p]) :
       cleanup_old_entries(Ledgers', t) = cleanup_old_entries(Ledgers, t)

\* C26 as stated: whenever acquire sleeps for its computed wait, then after
\* the wait and the second pruning, for every metric that was violated
\* before the wait, the entry that was the oldest one in the ledger of that
\* metric is no longer in it, so that each such ledger has lost at least one
\* entry before the new entry is recorded.
C26_WaitClearsEveryViolatedMetric ==
  [][\A p \in Callers :
       (EntersBody(p) /\ pc'[p] = "sleeping")
         => \A m \in Metrics :
              MetricViolated(Ledgers', Limits', estimated_tokens'[p], m)
                => \A t \in ResumeTimes(now'[p], wait_time'[p]) :
                     ClearsOldest(Ledgers', t, m)]_vars

\* C26 as amended: whenever acquire sleeps for its computed wait, then after
\* the wait and the second pruning, for every metric that was violated
\* before the wait and whose ledger held an entry, the entry that was the
\* oldest one in that ledger is no longer in it, so that each such ledger
\* has lost at least one entry before the new entry is recorded; prunings
\* by get_status during the sleep do not change what the second pruning
\* leaves.
C26_WaitClearsBindingEntries ==
  [][\A p \in Callers :
       /\ (EntersBody(p) /\ pc'[p] = "sleeping")
            => \A m \in Metrics :
                 (/\ MetricViolated(Ledgers', Limits', estimated_tokens'[p], m)
                  /\ MetricStamps(Ledgers', m) # <<>>)
                   => \A t \in ResumeTimes(now'[p], wait_time'[p]) :
                        ClearsOldest(Ledgers', t, m)
       /\ (pc[p] = "sleeping" /\ pc'[p] = "sleeping") => SleepsOn(p)
       /\ LeavesSleep(p) => ResumesAfterWait(p)]_vars

\* a caller back from a wait for TPM: the minute ledgers hold its entry
\* alone, the day ledgers still hold the entry the wait has cleared
C26_Witness ==
  \E p \in Callers :
    /\ JustReturned(p)
    /\ wait_time[p] > 0
    /\ requests_minute = <<clock>>
    /\ Len(tokens_minute) = 1
    /\ Len(requests_day) >= 2
    /\ Len(requests_day) < rpd_limit

\* ------------------------------------------------------------------ C27
\* in this step the acquire of caller p ends without returning: its wait
\* computation raises, or p is cancelled during its wait
FailsInBody(p) == EntersBody(p) /\ pc'[p] = "raised"
CancelledInSleep(p) == pc[p] = "sleeping" /\ pc'[p] = "idle"

\* seq2 holds entries of seq1 only, and no more of them
NothingAppended(seq1, seq2) ==
  /\ Len(seq2) <= Len(seq1)
  /\ \A i \in 1..Len(seq2) : seq2[i] = seq1[i + Len(seq1) - Len(seq2)]

\* C27: when a call to acquire terminates abnormally (its caller is
\* cancelled during the wait, or the wait computation fails), the lock is
\* released, no entry is appended to any of the four ledgers, the ceilings
\* are unchanged, and the abandoned call does not block later callers: a
\* caller that is not inside acquire neither owns the lock nor stands in
\* its queue, and a free lock with nobody queued admits the next caller in
\* the step of its call.
C27_AbandonedAcquireLeavesNoTrace ==
  /\ [][\A p \in Callers :
          (FailsInBody(p) \/ CancelledInSleep(p))
            => /\ lock' = NoCaller
               /\ NothingAppended(requests_minute, requests_minute')
               /\ NothingAppended(requests_day, requests_day')
               /\ NothingAppended(tokens_minute, tokens_minute')
               /\ NothingAppended(tokens_day, tokens_day')
               /\ limits' = limits
               /\ acquires_completed' = acquires_completed]_vars
  /\ [](\A p \in Callers :
          pc[p] \in {"idle", "raised", "acquired"}
            => lock # p /\ p \notin Range(waiters))
  /\ [][\A q \in Callers :
          (CallsAcquire(q) /\ lock = NoCaller /\ waiters = <<>>)
            => EntersBody(q)]_vars

\* a caller cancelled in its wait: of two calls one has completed, the other
\* computed a wait and is gone, and the lock is free again
C27_Witness ==
  \E p \in Callers :
    /\ \A q \in Callers : pc[q] = "idle"
    /\ wait_time[p] > 0
    /\ \A q \in Callers \ {p} : wait_time[q] = 0
    /\ calls = 2
    /\ acquires_completed = 1
    /\ Len(requests_day) = 1
    /\ lock = NoCaller

\* ------------------------------------------------------------------ C28
\* short is the end of long, entry by entry
IsSuffix(short, long) ==
  /\ Len(short) <= Len(long)
  /\ \A i \in 1..Len(short) : short[i] = long[i + Len(long) - Len(short)]

\* C28: in every reachable state the request-minute and token-minute
\* ledgers have the same length and the same timestamps position by
\* position, likewise the request-day and token-day ledgers, and every
\* entry of a minute ledger is also in the corresponding day ledger: the
\* minute ledger is a suffix of the day ledger, it holds every day entry of
\* the last 60 seconds, and once pruned at the current instant it holds
\* exactly those.
C28_LedgerAlignment ==
  /\ StampsOf(tokens_minute) = requests_minute
  /\ StampsOf(tokens_day) = requests_day
  /\ IsSuffix(requests_minute, requests_day)
  /\ IsSuffix(tokens_minute, tokens_day)
  /\ IsSuffix(RequestsAfter(requests_day, clock - MinuteWindow),
              requests_minute)
  /\ IsSuffix(TokensAfter(tokens_day, clock - MinuteWindow), tokens_minute)
  /\ InWindow.rm = RequestsAfter(InWindow.rd, clock - MinuteWindow)
  /\ InWindow.tm = TokensAfter(InWindow.td, clock - MinuteWindow)

\* the minute ledgers hold the newest entry, the day ledgers an older one
\* as well, after a pruning at the current instant
C28_Witness ==
  /\ requests_minute # <<>>
  /\ Len(requests_minute) < Len(requests_day)
  /\ Len(tokens_minute) < Len(tokens_day)
  /\ requests_minute = InWindow.rm
  /\ requests_day[1] <= clock - MinuteWindow

\* ------------------------------------------------------------------ C29
\* granting est now would push a day metric over its ceiling
DayMetricViolated(L, lim, est) ==
  \/ MetricViolated(L, lim, est, "rpd")
  \/ MetricViolated(L, lim, est, "tpd")

\* the bounds on a wait w computed for cost est on the pruned ledgers L
WaitWithinBounds(w, L, lim, est) ==
  /\ w >= 0
  /\ w = 0 \/ w > SafetyMargin
  /\ ~DayMetricViolated(L, lim, est) => w <= MinuteWindow + SafetyMargin
  /\ w <= DayWindow + SafetyMargin

\* C29: the wait that acquire computes right after pruning is never
\* negative; it is either 0 or strictly greater than 1 second; it is at most
\* 61 seconds when only minute metrics (RPM, TPM) are violated and at most
\* 86401 seconds when a day metric (RPD, TPD) is violated.
C29_WaitBounds ==
  /\ [](\A est \in Costs :
          ~calculate_wait_time_raises(InWindow, Limits)
            => WaitWithinBounds(
                 calculate_wait_time(InWindow, Limits, clock, est),
                 InWindow, Limits, est))
  /\ [][\A p \in Callers :
          (EntersBody(p) /\ pc'[p] # "raised")
            => /\ WaitWithinBounds(wait_time'[p], InWindow, Limits,
                                   estimated_tokens'[p])
               /\ wait_time'[p] =
                    calculate_wait_time(InWindow, Limits, clock,
                                        estimated_tokens'[p])]_vars

\* the longest minute wait: the ledger is full of entries of this very
\* instant and no day metric is violated
C29_Witness ==
  \E p \in Callers :
    /\ pc[p] = "sleeping"
    /\ now[p] = clock
    /\ wait_time[p] = MinuteWindow + SafetyMargin
    /\ ~DayMetricViolated(InWindow, Limits, estimated_tokens[p])
    /\ MetricViolated(InWindow, Limits, estimated_tokens[p], "rpm")

====
